---------------------------- MODULE Spec2Model ----------------------------
(***************************************************************************)
(* Model of etl.py: main() runs process_song_data and then                 *)
(* process_log_data against one Spark session.  Dataframes are sequences   *)
(* of records (a record is a function from column names to values), the    *)
(* output bucket is the variable store, one entry per parquet dataset.     *)
(* Durations and lengths are counted in tenths of a second, timestamps in  *)
(* epoch milliseconds.  A 64-bit monotonically_increasing_id is the pair   *)
(* <<partition index (upper 31 bits), row number in partition (lower 33)>>.*)
(* An ISO-8601 string is the sequence of its numeric fields                *)
(* <<year, month, day, hour, minute, second>>, followed by the             *)
(* microseconds exactly when isoformat() prints a fraction.                *)
(***************************************************************************)
EXTENDS Integers, Sequences, FiniteSets, TLC

VARIABLES
    pc,        \* the statement main() is at
    df,        \* process_song_data: the song dataframe
    log,       \* process_log_data: the log dataframe as read
    events,    \* process_log_data: df after the NextSong filter
    songs_df,  \* process_log_data: the songs table read back
    store,     \* the output bucket, one entry per parquet dataset
    written,   \* datasets whose write completed in this run
    executed,  \* the statements this run has executed, in order
    failedAt,  \* the statement that raised, or "none"
    error,     \* the exception raised, or "none"
    tz         \* seconds east of UTC of the executing machine

vars ==
    <<pc, df, log, events, songs_df, store, written, executed, failedAt,
      error, tz>>

\* ------------------------------------------------------------------ bounds
MaxSongs == 2
MaxEvents == 2
NumPartitions == 2

\* --------------------------------------------------------- column lists
SongColumns == {"artist_id", "title", "year", "duration"}

ArtistColumns ==
    {"artist_id", "artist_name", "artist_location", "artist_latitude",
     "artist_longitude"}

UserColumns == {"userId", "firstName", "lastName", "gender", "level"}

LogDfColumns ==
    {"userId", "sessionId", "userAgent", "length", "artist", "location",
     "song", "level", "songplay_id", "start_time", "month"}

SongplaysColumns ==
    {"songplay_id", "start_time", "user_id", "level", "song_id", "artist_id",
     "session_id", "location", "user_agent", "year", "month"}

Datasets == {"songs", "artists", "users", "time", "songplays"}

\* ------------------------------------------------------ dataframe algebra
Select(d, cols) == [i \in 1..Len(d) |-> [c \in cols |-> d[i][c]]]

RECURSIVE DropDuplicates(_)
DropDuplicates(d) ==
    IF d = <<>> THEN <<>>
    ELSE LET front == DropDuplicates(SubSeq(d, 1, Len(d) - 1))
             last == d[Len(d)]
         IN  IF \E i \in 1..Len(front) : front[i] = last
             THEN front
             ELSE Append(front, last)

RECURSIVE Filter(_, _, _)
Filter(d, col, value) ==
    IF d = <<>> THEN <<>>
    ELSE LET front == Filter(SubSeq(d, 1, Len(d) - 1), col, value)
             last == d[Len(d)]
         IN  IF last[col] = value THEN Append(front, last) ELSE front

\* spark.read.json without a schema infers the columns from the records:
\* files without records give a frame without columns.
InferredColumns(d) == UNION {DOMAIN d[i] : i \in 1..Len(d)}

\* df.filter(F.col('page') == 'NextSong')
NextSongEventsUnfiltered(d) == d

NextSongEvents(d) == Filter(d, "page", "NextSong")

\* A partition layout places row i of an n-row dataframe in a partition.
Layouts(n) == [1..n -> 0..(NumPartitions - 1)]

MonotonicallyIncreasingId(layout, i) ==
    <<layout[i], Cardinality({j \in 1..(i - 1) : layout[j] = layout[i]})>>

WithId(d, col, layout) ==
    [i \in 1..Len(d) |-> d[i] @@ (col :> MonotonicallyIncreasingId(layout, i))]


\* ------------------------------------------------- calendar (datetime)
CivilFromDays(days) ==
    LET z == days + 719468
        era == z \div 146097
        doe == z - era * 146097
        yoe == (doe - doe \div 1460 + doe \div 36524 - doe \div 146096) \div 365
        doy == doe - (365 * yoe + yoe \div 4 - yoe \div 100)
        mp == (5 * doy + 2) \div 153
        d == doy - (153 * mp + 2) \div 5 + 1
        m == IF mp < 10 THEN mp + 3 ELSE mp - 9
        y == yoe + era * 400 + (IF m <= 2 THEN 1 ELSE 0)
    IN  <<y, m, d>>

DaysFromCivil(y, m, d) ==
    LET yy == IF m <= 2 THEN y - 1 ELSE y
        era == yy \div 400
        yoe == yy - era * 400
        mp == IF m > 2 THEN m - 3 ELSE m + 9
        doy == (153 * mp + 2) \div 5 + d - 1
        doe == yoe * 365 + yoe \div 4 - yoe \div 100 + doy
    IN  era * 146097 + doe - 719468

\* datetime.fromtimestamp(dt / 1000.0).isoformat() in a zone `offset`
\* seconds east of UTC: the fraction is printed only when it is not zero.
GetTimestamp(dt, offset) ==
    LET local == dt \div 1000 + offset
        micro == (dt % 1000) * 1000
        civil == CivilFromDays(local \div 86400)
        rem == local % 86400
        whole == <<civil[1], civil[2], civil[3],
                   rem \div 3600, (rem % 3600) \div 60, rem % 60>>
    IN  IF micro = 0 THEN whole ELSE Append(whole, micro)

\* strptime(s, '%Y-%m-%dT%H:%M:%S.%f') accepts s only with a fraction.
StrptimeMatches(iso) == Len(iso) = 7

\* strftime('%w'): day of the week as a decimal string, Sunday is "0".
GetWeekday(iso) ==
    IF StrptimeMatches(iso)
    THEN ToString((DaysFromCivil(iso[1], iso[2], iso[3]) + 4) % 7)
    ELSE "ValueError"

Hour(iso) == iso[4]

DayOfMonth(iso) == iso[3]

Month(iso) == iso[2]

Year(iso) == iso[1]

IsoWeekday(y, m, d) == ((DaysFromCivil(y, m, d) + 3) % 7) + 1

WeeksInYear(y) ==
    LET jan1 == IsoWeekday(y, 1, 1)
        leap == (y % 4 = 0 /\ y % 100 # 0) \/ y % 400 = 0
    IN  IF jan1 = 4 \/ (leap /\ jan1 = 3) THEN 53 ELSE 52

WeekOfYear(iso) ==
    LET y == iso[1]
        ordinal == DaysFromCivil(y, iso[2], iso[3]) - DaysFromCivil(y, 1, 1) + 1
        w == (ordinal - IsoWeekday(y, iso[2], iso[3]) + 10) \div 7
    IN  IF w < 1 THEN WeeksInYear(y - 1)
        ELSE IF w > WeeksInYear(y) THEN 1
        ELSE w

\* ------------------------------------------------------------ the tables
SongsTable(d, layout) ==
    WithId(DropDuplicates(Select(d, SongColumns)), "song_id", layout)

ArtistsTable(d) == DropDuplicates(Select(d, ArtistColumns))

UsersTableLastLevel(d) ==
    LET rows == Select(d, UserColumns)
    IN  DropDuplicates([i \in 1..Len(rows) |->
            rows[CHOOSE j \in 1..Len(rows) :
                    /\ rows[j].userId = rows[i].userId
                    /\ \A k \in (j + 1)..Len(rows) :
                          rows[k].userId # rows[i].userId]])

UsersTable(d) == DropDuplicates(Select(d, UserColumns))

TimeRow(ts, offset) ==
    LET start_time == GetTimestamp(ts, offset)
    IN  [ts |-> ts,
         start_time |-> start_time,
         hour |-> Hour(start_time),
         day |-> DayOfMonth(start_time),
         week |-> WeekOfYear(start_time),
         month |-> Month(start_time),
         year |-> Year(start_time),
         weekday |-> GetWeekday(start_time)]

TimeTableDistinct(d, offset) ==
    DropDuplicates([i \in 1..Len(d) |-> TimeRow(d[i].ts, offset)])

TimeTable(d, offset) == [i \in 1..Len(d) |-> TimeRow(d[i].ts, offset)]

\* The get_weekday UDF raises inside the job that writes the time table.
TimeUdfRaises(d, offset) ==
    \E i \in 1..Len(d) : ~StrptimeMatches(GetTimestamp(d[i].ts, offset))


\* ------------------------------------------------------------ the inputs
SongRecord(artist_id, title, year, duration, artist_name) ==
    [artist_id |-> artist_id, title |-> title, year |-> year,
     duration |-> duration, num_songs |-> 1, artist_name |-> artist_name,
     artist_location |-> "", artist_latitude |-> 0, artist_longitude |-> 0]

SongRecords ==
    {SongRecord("A1", "X", 2000, 1800, "N1"),
     SongRecord("A1", "X", 2000, 1800, "N1 feat."),
     SongRecord("A2", "Y", 2001, 2000, "N2"),
     SongRecord("A3", "Y", 2001, 2000, "N3")}

LogEvent(ts, page, userId, level, song, length) ==
    [ts |-> ts, page |-> page, userId |-> userId, firstName |-> "F",
     lastName |-> "L", gender |-> "G", level |-> level, sessionId |-> userId,
     userAgent |-> "UA", length |-> length, artist |-> "", location |-> "",
     song |-> song]

LogEvents ==
    {LogEvent(90061001, "NextSong", "1", "free", "Y", 2000),
     LogEvent(90061001, "NextSong", "1", "paid", "Unknown Track", 9999),
     LogEvent(90062002, "Home", "2", "free", "X", 1800),
     LogEvent(90062000, "NextSong", "2", "free", "X", 1800)}

SeqsUpTo(S, n) == UNION {[1..k -> S] : k \in 0..n}

SongInputs == SeqsUpTo(SongRecords, MaxSongs)

LogInputs == SeqsUpTo(LogEvents, MaxEvents)

TimeZones == {0, 3600}

\* ------------------------------------------------------------- the store
Absent == [exists |-> FALSE, rows |-> <<>>]

EmptyStore == [d \in Datasets |-> Absent]

Overwrite(s, name, rows) ==
    [s EXCEPT ![name] = [exists |-> TRUE, rows |-> rows]]

\* spark.read.parquet needs a path that exists and holds a data file to
\* infer the schema from; the partitioned write of a frame without rows
\* leaves none.
ParquetReadable(t) == t.exists /\ t.rows # <<>>

\* An overwrite that fails has either not touched the path or has already
\* removed what was there.
FailedWrite(s, name) == {s, [s EXCEPT ![name] = Absent]}

\* What an earlier run of this program leaves behind.
PriorSongData == <<SongRecord("A0", "Old", 1999, 1000, "N0")>>

PriorLogData == <<LogEvent(3723004, "NextSong", "0", "free", "Old", 1000)>>

PriorStore(offset) ==
    [EmptyStore EXCEPT
        !["songs"] = [exists |-> TRUE,
                      rows |-> SongsTable(PriorSongData, <<0>>)],
        !["artists"] = [exists |-> TRUE, rows |-> ArtistsTable(PriorSongData)],
        !["users"] = [exists |-> TRUE, rows |-> UsersTable(NextSongEvents(PriorLogData))],
        !["time"] = [exists |-> TRUE, rows |-> TimeTable(NextSongEvents(PriorLogData), offset)]]

\* ---------------------------------------------------------- control flow
\* main(): process_song_data, then process_log_data, then spark.stop().
ProgramLogFirst ==
    <<"create_spark_session",
      "read_log_data", "filter", "write_users", "write_time", "read_songs",
      "fact_join",
      "read_song_data", "write_songs", "write_artists",
      "spark_stop">>

Program ==
    <<"create_spark_session",
      "read_song_data", "write_songs", "write_artists",
      "read_log_data", "filter", "write_users", "write_time", "read_songs",
      "fact_join",
      "spark_stop">>

Position(step) == CHOOSE i \in 1..Len(Program) : Program[i] = step

NextStep(step) == Program[Position(step) + 1]

\* No statement of etl.py catches an exception: it ends the run.
RaiseSwallowed(step, kind) ==
    /\ pc' = NextStep(step)
    /\ failedAt' = step
    /\ error' = kind

Raise(step, kind) ==
    /\ pc' = "failed"
    /\ failedAt' = step
    /\ error' = kind

Proceed(step) ==
    /\ pc' = NextStep(step)
    /\ UNCHANGED <<failedAt, error>>

\* ------------------------------------------------- names and columns
ModuleGlobals ==
    {"configparser", "datetime", "os", "SparkSession", "F", "StructType",
     "StructField", "StringType", "DoubleType", "IntegerType", "DateType",
     "TimestampType", "get_timestamp", "get_weekday", "get_songs_table_path",
     "get_artists_table_path", "config", "SONG_SCHEMA",
     "create_spark_session", "process_song_data", "process_log_data", "main"}

\* The global names the log_df expression looks up.
LogDfNames == {"monotonically_increasing_id", "get_timestamp", "month"}

UnboundNames == LogDfNames \ ModuleGlobals

JoinedColumns == LogDfColumns \cup SongColumns \cup {"song_id"}

UnresolvedColumns == SongplaysColumns \ JoinedColumns

LogDf(d, layout, offset) ==
    Select(
        [i \in 1..Len(d) |->
            d[i] @@ ("songplay_id" :> MonotonicallyIncreasingId(layout, i))
                 @@ ("start_time" :> GetTimestamp(d[i].ts, offset))
                 @@ ("month" :> Month(GetTimestamp(d[i].ts, offset)))],
        LogDfColumns)

RECURSIVE JoinRow(_, _)
JoinRow(e, songs) ==
    IF songs = <<>> THEN <<>>
    ELSE LET front == JoinRow(e, SubSeq(songs, 1, Len(songs) - 1))
             s == songs[Len(songs)]
         IN  IF e.song = s.title /\ e.length = s.duration
             THEN Append(front, e @@ s)
             ELSE front

RECURSIVE Join(_, _)
Join(log_df, songs) ==
    IF log_df = <<>> THEN <<>>
    ELSE Join(SubSeq(log_df, 1, Len(log_df) - 1), songs)
            \o JoinRow(log_df[Len(log_df)], songs)

SongplaysTable(d, songs, layout, offset) ==
    Select(Join(LogDf(d, layout, offset), songs), SongplaysColumns)


\* ---------------------------------------------------------------- Init
Init ==
    /\ pc = Program[1]
    /\ df = <<>>
    /\ log = <<>>
    /\ events = <<>>
    /\ songs_df = <<>>
    /\ tz \in TimeZones
    /\ store \in {EmptyStore, PriorStore(tz)}
    /\ written = {}
    /\ executed = <<>>
    /\ failedAt = "none"
    /\ error = "none"

\* -------------------------------------------------------------- actions
CreateSparkSession ==
    /\ pc = "create_spark_session"
    /\ executed' = Append(executed, pc)
    /\ Proceed(pc)
    /\ UNCHANGED <<df, log, events, songs_df, store, written, tz>>

ReadSongData ==
    /\ pc = "read_song_data"
    /\ executed' = Append(executed, pc)
    /\ \/ /\ df' \in SongInputs
          /\ Proceed(pc)
       \/ /\ df' = df
          /\ Raise(pc, "ReadFailed")
    /\ UNCHANGED <<log, events, songs_df, store, written, tz>>

WriteSongs ==
    /\ pc = "write_songs"
    /\ executed' = Append(executed, pc)
    /\ \/ /\ \E layout \in Layouts(Len(DropDuplicates(Select(df, SongColumns)))) :
                store' = Overwrite(store, "songs", SongsTable(df, layout))
          /\ written' = written \cup {"songs"}
          /\ Proceed(pc)
       \/ /\ store' \in FailedWrite(store, "songs")
          /\ written' = written
          /\ Raise(pc, "WriteFailed")
    /\ UNCHANGED <<df, log, events, songs_df, tz>>

WriteArtists ==
    /\ pc = "write_artists"
    /\ executed' = Append(executed, pc)
    /\ \/ /\ store' = Overwrite(store, "artists", ArtistsTable(df))
          /\ written' = written \cup {"artists"}
          /\ Proceed(pc)
       \/ /\ store' \in FailedWrite(store, "artists")
          /\ written' = written
          /\ Raise(pc, "WriteFailed")
    /\ UNCHANGED <<df, log, events, songs_df, tz>>

ReadLogData ==
    /\ pc = "read_log_data"
    /\ executed' = Append(executed, pc)
    /\ \/ /\ log' \in LogInputs
          /\ Proceed(pc)
       \/ /\ log' = log
          /\ Raise(pc, "ReadFailed")
    /\ UNCHANGED <<df, events, songs_df, store, written, tz>>

FilterNextSong ==
    /\ pc = "filter"
    /\ executed' = Append(executed, pc)
    /\ IF "page" \in InferredColumns(log)
       THEN /\ events' = NextSongEvents(log)
            /\ Proceed(pc)
       ELSE /\ events' = events
            /\ Raise(pc, "AnalysisException")
    /\ UNCHANGED <<df, log, songs_df, store, written, tz>>

WriteUsers ==
    /\ pc = "write_users"
    /\ executed' = Append(executed, pc)
    /\ \/ /\ store' = Overwrite(store, "users", UsersTable(events))
          /\ written' = written \cup {"users"}
          /\ Proceed(pc)
       \/ /\ store' \in FailedWrite(store, "users")
          /\ written' = written
          /\ Raise(pc, "WriteFailed")
    /\ UNCHANGED <<df, log, events, songs_df, tz>>

WriteTime ==
    /\ pc = "write_time"
    /\ executed' = Append(executed, pc)
    /\ \/ /\ ~TimeUdfRaises(events, tz)
          /\ store' = Overwrite(store, "time", TimeTable(events, tz))
          /\ written' = written \cup {"time"}
          /\ Proceed(pc)
       \/ /\ store' \in FailedWrite(store, "time")
          /\ written' = written
          /\ Raise(pc, "WriteFailed")
    /\ UNCHANGED <<df, log, events, songs_df, tz>>

ReadSongsTable ==
    /\ pc = "read_songs"
    /\ executed' = Append(executed, pc)
    /\ \/ /\ ParquetReadable(store["songs"])
          /\ songs_df' = store["songs"].rows
          /\ Proceed(pc)
       \/ /\ songs_df' = songs_df
          /\ Raise(pc, IF ParquetReadable(store["songs"])
                       THEN "ReadFailed"
                       ELSE "AnalysisException")
    /\ UNCHANGED <<df, log, events, store, written, tz>>

\* Lines 187-226: build log_df, join it with songs_df, select the songplays
\* columns and write them.  The names are looked up first, the select
\* resolves its columns when it is built, the write runs the job.
FactJoin ==
    /\ pc = "fact_join"
    /\ executed' = Append(executed, pc)
    /\ IF UnboundNames # {}
       THEN /\ Raise(pc, "NameError")
            /\ UNCHANGED <<store, written>>
       ELSE IF UnresolvedColumns # {}
       THEN /\ Raise(pc, "AnalysisException")
            /\ UNCHANGED <<store, written>>
       ELSE \/ /\ \E layout \in Layouts(Len(events)) :
                     store' = Overwrite(store, "songplays",
                                  SongplaysTable(events, songs_df, layout, tz))
               /\ written' = written \cup {"songplays"}
               /\ Proceed(pc)
            \/ /\ store' \in FailedWrite(store, "songplays")
               /\ written' = written
               /\ Raise(pc, "WriteFailed")
    /\ UNCHANGED <<df, log, events, songs_df, tz>>

\* spark.stop() (line 238) has no action: FactJoin never proceeds to it.
Next ==
    \/ CreateSparkSession
    \/ ReadSongData
    \/ WriteSongs
    \/ WriteArtists
    \/ ReadLogData
    \/ FilterNextSong
    \/ WriteUsers
    \/ WriteTime
    \/ ReadSongsTable
    \/ FactJoin

Spec == Init /\ [][Next]_vars


\* ======================================================================
\* Properties
\* ======================================================================
RowSet(t) == {t[i] : i \in 1..Len(t)}

Project(r, cols) == [c \in cols |-> r[c]]

Ran(step) == \E i \in 1..Len(executed) : executed[i] = step

NextSongIndices == {i \in 1..Len(log) : log[i].page = "NextSong"}

Distinct(t, col) ==
    \A i, j \in 1..Len(t) : i # j => t[i][col] # t[j][col]

Ended == pc \in {"failed", "spark_stop"}

\* An engine operation failed: a read, a write, or the analysis of a frame
\* built from input without records.
JobFailed == error \in {"ReadFailed", "WriteFailed", "AnalysisException"}

WriteStep(d) ==
    CASE d = "songs" -> "write_songs"
      [] d = "artists" -> "write_artists"
      [] d = "users" -> "write_users"
      [] d = "time" -> "write_time"
      [] d = "songplays" -> "fact_join"

\* The (event, Songs row) pairs the join predicate matches.
MatchingPairs ==
    {<<i, j>> \in NextSongIndices \X (1..Len(songs_df)) :
        /\ log[i].song = songs_df[j].title
        /\ log[i].length = songs_df[j].duration}

\* C1: whenever the read of the persisted Songs table has been issued, the
\* Songs write of the same run was executed before it and has completed, and
\* a read that succeeded returned the table this run wrote.
C1_SongsWrittenBeforeRead ==
    /\ \A i \in 1..Len(executed) :
          executed[i] = "read_songs" =>
             /\ "songs" \in written
             /\ \E j \in 1..(i - 1) : executed[j] = "write_songs"
    /\ (Ran("read_songs") /\ failedAt # "read_songs") =>
          RowSet(Select(songs_df, SongColumns)) = RowSet(Select(df, SongColumns))

C1_Witness ==
    /\ pc = "fact_join"
    /\ "songs" \in written
    /\ Len(songs_df) = 2

\* C2: a run in which no engine operation failed ends
\* successfully with all five datasets written by it.
C2_CleanRunWritesAllFive ==
    (Ended /\ ~JobFailed) => (pc = "spark_stop" /\ written = Datasets)

\* C3: a log row contributes to Users, Time or Songplays only if its page is
\* "NextSong": every row of a table this run wrote stems from a NextSong row.
C3_OnlyNextSongContributes ==
    /\ "users" \in written =>
          \A r \in RowSet(store["users"].rows) :
             \E i \in NextSongIndices : Project(log[i], UserColumns) = r
    /\ "time" \in written =>
          \A r \in RowSet(store["time"].rows) :
             \E i \in NextSongIndices : log[i].ts = r.ts
    /\ "songplays" \in written =>
          \A r \in RowSet(store["songplays"].rows) :
             \E i \in NextSongIndices :
                /\ r.start_time = GetTimestamp(log[i].ts, tz)
                /\ r.level = log[i].level

C3_Witness ==
    /\ {"users", "time"} \subseteq written
    /\ Len(log) = 2
    /\ Cardinality(NextSongIndices) = 1
    /\ Len(store["users"].rows) = 1
    /\ Len(store["time"].rows) = 1

\* C4: the Songplays table holds exactly one row per pair (filtered event,
\* persisted Songs row) with equal (song, length) and (title, duration),
\* carrying that Songs row's song_id and artist_id.
C4_SongplaysIsTheJoin ==
    (Ran("fact_join") /\ ~JobFailed) =>
       /\ store["songplays"].exists
       /\ Len(store["songplays"].rows) = Cardinality(MatchingPairs)
       /\ \A p \in MatchingPairs :
             \E r \in RowSet(store["songplays"].rows) :
                /\ r.song_id = songs_df[p[2]].song_id
                /\ r.artist_id = songs_df[p[2]].artist_id
                /\ r.level = log[p[1]].level
       /\ \A r \in RowSet(store["songplays"].rows) :
             \E p \in MatchingPairs :
                /\ r.song_id = songs_df[p[2]].song_id
                /\ r.artist_id = songs_df[p[2]].artist_id

\* C5: Songs, Artists and Users each hold exactly one row per distinct value
\* of their projected column tuple in the input; rows that differ in any
\* projected column are kept apart.
C5_OneRowPerDistinctTuple ==
    /\ "songs" \in written =>
          /\ RowSet(Select(store["songs"].rows, SongColumns))
                = RowSet(Select(df, SongColumns))
          /\ Len(store["songs"].rows)
                = Cardinality(RowSet(Select(df, SongColumns)))
    /\ "artists" \in written =>
          /\ RowSet(store["artists"].rows) = RowSet(Select(df, ArtistColumns))
          /\ Len(store["artists"].rows)
                = Cardinality(RowSet(Select(df, ArtistColumns)))
    /\ "users" \in written =>
          /\ RowSet(store["users"].rows)
                = {Project(log[i], UserColumns) : i \in NextSongIndices}
          /\ Len(store["users"].rows)
                = Cardinality({Project(log[i], UserColumns) :
                                  i \in NextSongIndices})

C5_Witness ==
    /\ {"songs", "artists", "users"} \subseteq written
    /\ Len(df) = 2
    /\ Len(store["songs"].rows) = 1
    /\ Len(store["artists"].rows) = 2
    /\ Len(log) = 2
    /\ Len(store["users"].rows) = 2
    /\ store["users"].rows[1].userId = store["users"].rows[2].userId

\* The song_id values of the Songs table are pairwise distinct.
C6_SongIdsDistinct == Distinct(store["songs"].rows, "song_id")

C7_LastRunDeterminesAllFive ==
    (Ended /\ ~JobFailed) =>
       /\ \A d \in Datasets : store[d].exists
       /\ RowSet(Select(store["songs"].rows, SongColumns))
             = RowSet(Select(df, SongColumns))
       /\ RowSet(store["artists"].rows) = RowSet(Select(df, ArtistColumns))
       /\ RowSet(store["users"].rows)
             = {Project(log[i], UserColumns) : i \in NextSongIndices}
       /\ {r.ts : r \in RowSet(store["time"].rows)}
             = {log[i].ts : i \in NextSongIndices}
       /\ Len(store["songplays"].rows) = Cardinality(MatchingPairs)

\* C8 as stated: the Time table has one row per distinct ts among the
\* NextSong events.
C8_TimeOneRowPerDistinctTs ==
    "time" \in written =>
       Len(store["time"].rows)
          = Cardinality({log[i].ts : i \in NextSongIndices})

\* C8 amended: the Time table has one row per NextSong event, duplicates of
\* a ts included, and its ts values are exactly those of the NextSong events.
C8_TimeOneRowPerEvent ==
    "time" \in written =>
       /\ Len(store["time"].rows) = Cardinality(NextSongIndices)
       /\ {r.ts : r \in RowSet(store["time"].rows)}
             = {log[i].ts : i \in NextSongIndices}

C8_Witness ==
    /\ "time" \in written
    /\ Len(store["time"].rows) = 2
    /\ store["time"].rows[1].ts = store["time"].rows[2].ts

\* C9: the select that builds Songplays names only columns the joined frame
\* has (user_id, session_id and user_agent being renamed from userId,
\* sessionId and userAgent), and every Songplays row carries them.
C9_SelectRenamesCamelCase ==
    /\ pc = "fact_join" =>
          {"user_id", "session_id", "user_agent"} \subseteq JoinedColumns
    /\ (Ran("fact_join") /\ ~JobFailed) =>
          /\ store["songplays"].exists
          /\ \A r \in RowSet(store["songplays"].rows) :
                {"user_id", "session_id", "user_agent"} \subseteq DOMAIN r

\* C10: once a statement has failed the run is over: nothing after the
\* failing statement is executed, no dataset later in the order songs,
\* artists, users, time, songplays is written, and a failure in the catalog
\* phase keeps the event phase from starting.
C10_FailureEndsRun ==
    failedAt # "none" =>
       /\ pc = "failed"
       /\ executed = SubSeq(Program, 1, Position(failedAt))
       /\ \A d \in written : Position(WriteStep(d)) < Position(failedAt)
       /\ Position(failedAt) <= Position("write_artists") =>
             /\ ~Ran("read_log_data")
             /\ ~Ran("read_songs")
             /\ ~Ran("fact_join")
             /\ written \cap {"users", "time", "songplays"} = {}

C10_Witness ==
    /\ pc = "failed"
    /\ failedAt = "write_artists"
    /\ error = "WriteFailed"
    /\ written = {"songs"}
    /\ ~store["artists"].exists
    /\ store["users"].exists

=============================================================================
